---- MODULE Spec2Model ----
(***************************************************************************)
(* A model of the universal-solver client: the transaction lookup with     *)
(* retries (GetSolanaTransaction, GetEthereumTransaction), the process-wide*)
(* key store (InitKeys) and the swap pipeline (ExecuteSwap with its        *)
(* Prepare, Sign and Submit stages), the request handler handlePostTxHash  *)
(* that calls them, and the decimal and float64 conversions the pipeline   *)
(* applies to amounts.                                                     *)
(***************************************************************************)
EXTENDS Integers, Sequences, FiniteSets, TLC

VARIABLES
    lk,         \* the running transaction lookup (one handler invocation)
    chainKeys,  \* package variable chainKeys (*keys.ChainKeys or nil)
    swap,       \* the SwapResponse objects, by identity
    pc,         \* where the owner of each SwapResponse stands
    call,       \* the arguments of each ExecuteSwap invocation
    node,       \* the account chain's node: pending nonce per address
    hist,       \* per SwapResponse: what the stages have done so far
    conv,       \* the amount conversions, evaluated once for the amounts in use
    keysLog,    \* what InitKeys and DeriveKeysFromSeedPhrase returned to callers
    hp          \* the handlePostTxHash invocation: request, position, answer

vars == <<lk, chainKeys, swap, pc, call, node, hist, conv, keysLog, hp>>

pipelineVars == <<chainKeys, swap, pc, call, node, hist, conv, keysLog, hp>>

-----------------------------------------------------------------------------
(* Bounds of the model *)

\* number of SwapResponse objects (concurrent ExecuteSwap invocations)
NumSwaps == 2

\* transactions the account chain's node accepts from one address
MaxNonce == 2

\* the longest seed phrase, in words
MaxWords == 3

(* Program constants *)

\* for i := 0; i < 10; i++
MaxAttempts == 10

\* GasLimit: 21000, // Standard ETH transfer gas limit
StdGasLimit == 21000

-----------------------------------------------------------------------------
(* The transaction lookup *)

\* the records a node may report for a transaction hash
Records == {"rec1", "rec2"}

\* makeRPCRequest: what one JSON-RPC round trip gives back.  An answer of the
\* node is "notfound" (a decoded map whose "result" is null), "record" (a
\* decoded map with a non-null "result") or "error" (the request could not
\* be sent or the body could not be decoded: nil, err).
\* a variant of makeRPCRequest that loses the result of the response
makeRPCRequestDroppingResult(answer, rec) ==
    IF answer = "error"
    THEN [response |-> [isMap |-> FALSE, result |-> "null"], err |-> "rpc"]
    ELSE [response |-> [isMap |-> TRUE, result |-> "null"], err |-> "nil"]

makeRPCRequest(answer, rec) ==
    CASE answer = "error"    -> [response |-> [isMap |-> FALSE, result |-> "null"],
                                 err |-> "rpc"]
      [] answer = "notfound" -> [response |-> [isMap |-> TRUE, result |-> "null"],
                                 err |-> "nil"]
      [] answer = "record"   -> [response |-> [isMap |-> TRUE, result |-> rec],
                                 err |-> "nil"]

NoResponse == [isMap |-> FALSE, result |-> "null"]

IdleLookup ==
    [pc |-> "idle", chain |-> "none", i |-> 0, calls |-> 0,
     response |-> NoResponse, err |-> "nil", answers |-> <<>>,
     ret |-> [value |-> NoResponse, err |-> "nil"]]

\* handlePostTxHash reaches GetSolanaTransaction (chain "solana"): the
\* declarations before the loop.
GetSolanaTransactionStart ==
    /\ lk.pc \in {"idle", "returned"}
    /\ lk' = [IdleLookup EXCEPT !.pc = "loop", !.chain = "solana"]
    /\ UNCHANGED pipelineVars

\* One iteration of the retry loop of GetSolanaTransaction.
SolanaIteration(answer, rec) ==
    /\ lk.pc = "loop"
    /\ lk.chain = "solana"
    /\ lk.i < MaxAttempts
    /\ LET r == makeRPCRequest(answer, rec)
           retry == r.response.isMap /\ r.response.result = "null"
       IN lk' = [lk EXCEPT
                   !.response = r.response,
                   !.err = r.err,
                   !.calls = @ + 1,
                   !.answers = Append(@, answer),
                   \* continue (after the sleep), break, or fall to i++
                   !.i = IF retry \/ r.err # "nil" THEN @ + 1 ELSE @,
                   !.pc = IF ~retry /\ r.err = "nil" THEN "after" ELSE "loop"]
    /\ UNCHANGED pipelineVars

\* a variant of SolanaLoopExit that waits for one more iteration
SolanaLoopExitOneLater ==
    /\ lk.pc = "loop"
    /\ lk.chain = "solana"
    /\ lk.i > MaxAttempts
    /\ lk' = [lk EXCEPT !.pc = "after"]
    /\ UNCHANGED pipelineVars

\* The loop condition fails: i = 10.
SolanaLoopExit ==
    /\ lk.pc = "loop"
    /\ lk.chain = "solana"
    /\ lk.i >= MaxAttempts
    /\ lk' = [lk EXCEPT !.pc = "after"]
    /\ UNCHANGED pipelineVars

\* The statements after the loop of GetSolanaTransaction.
GetSolanaTransactionReturn ==
    /\ lk.pc = "after"
    /\ lk.chain = "solana"
    /\ lk' = [lk EXCEPT
                !.pc = "returned",
                !.ret = IF lk.err # "nil"
                        THEN [value |-> NoResponse, err |-> "after 10 retries"]
                        ELSE [value |-> lk.response, err |-> "nil"]]
    /\ UNCHANGED pipelineVars

\* GetEthereumTransaction: Dial, one TransactionByHash call, the result map.
GetEthereumTransaction(dialOk, answer, rec) ==
    /\ lk.pc \in {"idle", "returned"}
    /\ lk' = [IdleLookup EXCEPT
                !.pc = "returned",
                !.chain = "ethereum",
                !.calls = IF dialOk THEN 1 ELSE 0,
                !.answers = IF dialOk THEN <<answer>> ELSE <<>>,
                !.ret = IF ~dialOk
                        THEN [value |-> NoResponse, err |-> "connect"]
                        ELSE IF answer = "record"
                        THEN [value |-> [isMap |-> TRUE, result |-> rec],
                              err |-> "nil"]
                        ELSE [value |-> NoResponse, err |-> "get"]]
    /\ UNCHANGED pipelineVars

Answers == {"notfound", "error", "record"}

NextLookup ==
    \/ GetSolanaTransactionStart
    \/ \E a \in Answers, r \in Records : SolanaIteration(a, r)
    \/ SolanaLoopExit
    \/ GetSolanaTransactionReturn
    \/ \E d \in BOOLEAN, a \in Answers, r \in Records : GetEthereumTransaction(d, a, r)

-----------------------------------------------------------------------------
(* Numbers: float64 values, decimal strings and big integers, computed as    *)
(* strconv.ParseFloat, fmt.Sprintf("%f"), big.Float.Mul and big.Float.Int    *)
(* compute them.                                                             *)

\* fmt.Sprintf("%f", x): six digits after the decimal point
FmtPrec == 6

\* the mantissa of a float64, and the precision of big.Float.SetFloat64
MantBits == 53

\* F(e), with e evaluated once and before F
Bind(e, F(_)) == CHOOSE r \in {F(v) : v \in {e}} : TRUE

\* Natural numbers of any size: the sequence of their limbs of four decimal
\* digits, most significant first, without leading zero limbs (zero: <<0>>).
BigNorm(d) ==
    LET nz == {i \in 1..Len(d) : d[i] # 0}
    IN IF nz = {} THEN <<0>>
       ELSE SubSeq(d, CHOOSE i \in nz : \A j \in nz : i <= j, Len(d))

BigOfInt(n) ==
    BigNorm(<<n \div 100000000, (n \div 10000) % 10000, n % 10000>>)

\* -1, 0, 1 as a < b, a = b, a > b
BigCmp(a, b) ==
    IF Len(a) < Len(b) THEN -1
    ELSE IF Len(a) > Len(b) THEN 1
    ELSE LET df == {i \in 1..Len(a) : a[i] # b[i]}
         IN IF df = {} THEN 0
            ELSE LET i == CHOOSE i \in df : \A j \in df : i <= j
                 IN IF a[i] < b[i] THEN -1 ELSE 1

BigLess(a, b) == BigCmp(a, b) < 0

\* a * k for 0 <= k <= 65536
BigMulSmall(a, k) ==
    LET \* <<limbs, carry>> of k times the last i limbs of a
        P[i \in 0..Len(a)] ==
            IF i = 0 THEN <<(<<>>), 0>>
            ELSE Bind(P[i - 1], LAMBDA p :
                   LET t == a[Len(a) + 1 - i] * k + p[2]
                   IN <<(<<t % 10000>>) \o p[1], t \div 10000>>)
    IN Bind(P[Len(a)], LAMBDA r : BigNorm(BigOfInt(r[2]) \o r[1]))

BigAdd(a, b) ==
    LET n == IF Len(a) > Len(b) THEN Len(a) ELSE Len(b)
        \* <<limbs, carry>> of the sum of the last i limbs of a and of b
        P[i \in 0..n] ==
            IF i = 0 THEN <<(<<>>), 0>>
            ELSE Bind(P[i - 1], LAMBDA p :
                   LET da == IF i <= Len(a) THEN a[Len(a) + 1 - i] ELSE 0
                       db == IF i <= Len(b) THEN b[Len(b) + 1 - i] ELSE 0
                       t == da + db + p[2]
                   IN <<(<<t % 10000>>) \o p[1], t \div 10000>>)
    IN Bind(P[n], LAMBDA r : BigNorm(<<r[2]>> \o r[1]))

BigInc(a) == BigAdd(a, <<1>>)

\* <<a div d, a mod d>> for 1 <= d <= 65536
BigDivSmall(a, d) ==
    LET \* <<quotient limbs, remainder>> of the first i limbs of a by d
        H[i \in 0..Len(a)] ==
            IF i = 0 THEN <<(<<>>), 0>>
            ELSE Bind(H[i - 1], LAMBDA h :
                   LET t == h[2] * 10000 + a[i]
                   IN <<Append(h[1], t \div d), t % d>>)
    IN Bind(H[Len(a)], LAMBDA r : <<BigNorm(r[1]), r[2]>>)

BigIsZero(a) == a = <<0>>

BigOdd(a) == a[Len(a)] % 2 = 1

\* a * 10^n, four digits at a time
BigMulPow10(a, n) ==
    LET R[c \in 0..(n \div 4)] ==
            IF c = 0 THEN BigMulSmall(a, 10^(n % 4))
            ELSE Bind(R[c - 1], LAMBDA p : BigMulSmall(p, 10000))
    IN R[n \div 4]

BigPow10(n) == BigMulPow10(<<1>>, n)

\* <<a div 10^n, a mod 10^n>> for n <= 8, four digits at a time
BigDivPow10(a, n) ==
    IF n <= 4 THEN BigDivSmall(a, 10^n)
    ELSE Bind(BigDivSmall(a, 10000), LAMBDA lo :
           Bind(BigDivSmall(lo[1], 10^(n - 4)), LAMBDA hi :
             <<hi[1], hi[2] * 10000 + lo[2]>>))

\* a * 2^n, sixteen bits at a time
BigMulPow2(a, n) ==
    LET R[c \in 0..(n \div 16)] ==
            IF c = 0 THEN BigMulSmall(a, 2^(n % 16))
            ELSE Bind(R[c - 1], LAMBDA p : BigMulSmall(p, 65536))
    IN R[n \div 16]

BigPow2(n) == BigMulPow2(<<1>>, n)

\* <<a div 2^n, whether a mod 2^n # 0>>, sixteen bits at a time
BigDivPow2(a, n) ==
    LET R[c \in 0..(n \div 16)] ==
            IF c = 0
            THEN Bind(BigDivSmall(a, 2^(n % 16)), LAMBDA h : <<h[1], h[2] # 0>>)
            ELSE Bind(R[c - 1], LAMBDA p :
                   Bind(BigDivSmall(p[1], 65536), LAMBDA h :
                     <<h[1], p[2] \/ h[2] # 0>>))
    IN R[n \div 16]

BigMul(a, b) ==
    LET \* a times the number written by the first i limbs of b
        M[i \in 0..Len(b)] ==
            IF i = 0 THEN <<0>>
            ELSE Bind(M[i - 1], LAMBDA p :
                   Bind(BigMulSmall(p, 10000), LAMBDA hi :
                     Bind(BigMulSmall(a, b[i]), LAMBDA lo : BigAdd(hi, lo))))
    IN M[Len(b)]

\* a / 2^t rounded to the nearest integer, ties to even; sticky tells that
\* a itself is the floor of a number with a fraction
RoundShift(a, t, sticky) ==
    IF t = 0 THEN a
    ELSE Bind(BigDivPow2(a, t - 1), LAMBDA low :
           Bind(BigDivSmall(low[1], 2), LAMBDA h :
             IF h[2] = 1 /\ (low[2] \/ sticky \/ BigOdd(h[1]))
             THEN BigInc(h[1]) ELSE h[1]))

Shifts == 0..(MantBits + 27)

\* the number of halvings that bring a below limit
BitsAbove(a, limit) ==
    Cardinality({j \in Shifts : ~BigLess(a, BigMulPow2(limit, j))})

\* the number of doublings that bring a up to limit
BitsBelow(a, limit) ==
    Cardinality({j \in Shifts : BigLess(BigMulPow2(a, j), limit)})

TrailingZeroBits(m) ==
    Cardinality({j \in Shifts \ {0} : ~BigDivPow2(m, j)[2]})

\* float64 values (finite, non-negative): m / 2^k with m odd, or zero
Float64(m, k) ==
    IF BigIsZero(m) THEN [m |-> <<0>>, k |-> 0]
    ELSE Bind(TrailingZeroBits(m), LAMBDA z :
           [m |-> BigDivPow2(m, z)[1], k |-> k - z])

\* the float64 nearest to the decimal dec.n / 10^dec.f (dec.f <= 8)
ParseFloat(dec) ==
    IF BigIsZero(dec.n) THEN Float64(<<0>>, 0)
    ELSE Bind(BigPow10(dec.f), LAMBDA den :
         Bind(BigMul(BigPow2(MantBits), den), LAMBDA hi :
           IF BigLess(dec.n, hi)
           THEN Bind(BitsBelow(dec.n, BigDivSmall(hi, 2)[1]), LAMBDA s :
                Bind(BigMulPow2(dec.n, s), LAMBDA num :
                Bind(BigDivPow10(num, dec.f), LAMBDA qr :
                  LET up == \/ 2 * qr[2] > 10^dec.f
                            \/ 2 * qr[2] = 10^dec.f /\ BigOdd(qr[1])
                  IN Bind(IF up THEN BigInc(qr[1]) ELSE qr[1], LAMBDA m :
                       Float64(m, s)))))
           ELSE Bind(BigDivPow10(dec.n, dec.f), LAMBDA qr :
                Bind(BitsAbove(qr[1], BigPow2(MantBits)), LAMBDA t :
                Bind(RoundShift(qr[1], t, qr[2] # 0), LAMBDA m :
                  Float64(m, -t))))))

MulFloat(x_, y_) ==
    Bind(BigMul(x_.m, y_.m), LAMBDA m :
    Bind(BitsAbove(m, BigPow2(MantBits)), LAMBDA t :
    Bind(RoundShift(m, t, FALSE), LAMBDA r :
      Float64(r, x_.k + y_.k - t))))

FloatInt(x_) ==
    IF x_.k <= 0 THEN BigMulPow2(x_.m, -x_.k)
    ELSE BigDivPow2(x_.m, x_.k)[1]

FormatF(x_) ==
    [n |-> IF x_.k <= 0 THEN BigMulPow10(BigMulPow2(x_.m, -x_.k), FmtPrec)
           ELSE Bind(BigMulPow10(x_.m, FmtPrec), LAMBDA u :
                  RoundShift(u, x_.k, FALSE)),
     f |-> FmtPrec]

-----------------------------------------------------------------------------
(* The swap pipeline: data *)

Swaps == 1..NumSwaps

\* toToken of a swap request: the two supported tokens and one other token
Tokens == {"ETH", "SOL", "BTC"}

\* destination addresses: a hex address of the account chain and a base58
\* public key of the blockhash chain (each is malformed for the other chain)
Destinations == {"0xDest", "SoLDest"}

\* the chain argument of PrepareTransaction
Chains == {"ethereum", "solana", "unknown"}

\* the word list of the mnemonic encoding (two of its words)
Wordlist == {"abandon", "ability"}

\* the index of a word in the word list
WordIndex == [abandon |-> 0, ability |-> 1]

\* what a phrase is made of: the words of the list and a token that is none
PhraseTokens == Wordlist \cup {"xyzzy"}

\* the seed phrases of at most MaxWords tokens (strings.Fields of the string)
SeedPhrases == UNION {[1..k -> PhraseTokens] : k \in 0..MaxWords}

\* the checksum word of a mnemonic: determined by the words before it
ChecksumIndex(words) ==
    Cardinality({i \in 1..Len(words) : WordIndex[words[i]] = 1}) % 2

\* bip39.IsMnemonicValid: a valid number of words, every word of the word
\* list, and the last word carrying the checksum of the others
IsMnemonicValid(mnemonic) ==
    /\ Len(mnemonic) > 0
    /\ Len(mnemonic) % 3 = 0
    /\ \A i \in 1..Len(mnemonic) : mnemonic[i] \in Wordlist
    /\ WordIndex[mnemonic[Len(mnemonic)]]
          = ChecksumIndex(SubSeq(mnemonic, 1, Len(mnemonic) - 1))

\* the phrases the process is started with: a valid one, and the same words
\* with a wrong checksum word
Phrases == {<<"abandon", "ability", "ability">>,
            <<"abandon", "ability", "abandon">>}

\* a decimal number dec.n / 10^dec.f
Dec(n, f) == [n |-> BigOfInt(n), f |-> f]

\* toAmount literals of the calculateSwap response: 1.0 and 0.5700001
Quotes == {Dec(1, 0), Dec(5700001, 7)}

\* an amount beyond the range of uint64: 10^20
BigQuote == [n |-> BigPow10(20), f |-> 0]

\* the amounts of the SwapResponse values a caller of the stages builds
CallerQuotes == Quotes \cup {BigQuote}

\* json.Decoder into the float64 field ToAmount
ToAmountOf == [q \in CallerQuotes |-> ParseFloat(q)]

ToAmounts == {ToAmountOf[q] : q \in CallerQuotes}

\* the pools GetAllPools reports: chainName -> poolAddress
PoolAddress == [ETH |-> "0xPool", SOL |-> "SoLPool"]

\* common.HexToAddress never fails: a string that is no hex address gives
\* the address of whatever bytes could be decoded (here: the zero address)
HexToAddress(a) == IF a \in {"0xPool", "0xDest"} THEN a ELSE "0x0"

\* solana.PublicKeyFromBase58: whether the string decodes to a public key
IsBase58Key(a) == a \in {"SoLPool", "SoLDest"}

EthAddresses == {HexToAddress(PoolAddress[t]) : t \in DOMAIN PoolAddress}

\* a variant of NewSeed that salts the seed with the calls made so far
NewSeedSalted(mnemonic, password) ==
    [mnemonic |-> mnemonic,
     salt |-> <<"mnemonic", password, Len(keysLog.derived)>>]

\* bip39.NewSeed(mnemonic, password): PBKDF2 of the mnemonic with the salt
\* "mnemonic" + password
NewSeed(mnemonic, password) ==
    [mnemonic |-> mnemonic, salt |-> <<"mnemonic", password>>]

\* the private key at the BIP44 path m/44'/60'/0'/0/0 of the wallet of seed
deriveEthereumKey(seed) ==
    IF seed.mnemonic = <<>>
    THEN [key |-> <<>>, err |-> "wallet"]
    ELSE [key |-> <<[curve |-> "secp256k1", path |-> "m/44'/60'/0'/0/0",
                     seed |-> seed]>>,
          err |-> "nil"]

\* ed25519.NewKeyFromSeed of the first 32 bytes of sha512(seed)
deriveSolanaKey(seed) ==
    [key |-> <<[curve |-> "ed25519", seed |-> [sha512 |-> seed]]>>,
     err |-> "nil"]

\* a variant of DeriveKeysFromSeedPhrase that derives without validating
DeriveKeysWithoutValidation(seedPhrase) ==
    LET seed == NewSeed(seedPhrase, "")
    IN [keys |-> <<[EthereumKey |-> deriveEthereumKey(seed).key,
                    SolanaKey |-> deriveSolanaKey(seed).key]>>,
        err |-> "nil"]

\* keys.DeriveKeysFromSeedPhrase: (*ChainKeys, error); a nil pointer is <<>>
DeriveKeysFromSeedPhrase(seedPhrase) ==
    IF ~IsMnemonicValid(seedPhrase)
    THEN [keys |-> <<>>, err |-> "invalid seed phrase"]
    ELSE LET seed == NewSeed(seedPhrase, "")
             eth == deriveEthereumKey(seed)
             sol == deriveSolanaKey(seed)
         IN IF eth.err # "nil"
            THEN [keys |-> <<>>, err |-> "failed to derive Ethereum key"]
            ELSE IF sol.err # "nil"
            THEN [keys |-> <<>>, err |-> "failed to derive Solana key"]
            ELSE [keys |-> <<[EthereumKey |-> eth.key, SolanaKey |-> sol.key]>>,
                  err |-> "nil"]

\* nothing returned yet by InitKeys, no DeriveKeysFromSeedPhrase call made
NoKeysLog == [initKeys |-> <<>>, derived |-> <<>>]

\* the float64 zero (the zero value of ChainParams.Lamports)
ZeroFloat == Float64(<<0>>, 0)

\* big.NewInt(1337)
ChainID == 1337

\* a SwapResponse that has not been constructed
NoSwap ==
    [TxHash |-> [kind |-> "none"],
     SwapResult |-> [ToToken |-> "", ToAmount |-> ZeroFloat],
     Status |-> "",
     TxToSign |-> <<>>,
     DestinationAddress |-> ""]

\* &SwapResponse{TxHash: result.Data, SwapResult: *swapResult,
\*               Status: "pending", DestinationAddress: destinationAddress}
NewSwapResponse(toToken, toAmount, destinationAddress) ==
    [TxHash |-> [kind |-> "operation", data |-> "swap"],
     SwapResult |-> [ToToken |-> toToken, ToAmount |-> toAmount],
     Status |-> "pending",
     TxToSign |-> <<>>,
     DestinationAddress |-> destinationAddress]

\* mutation: whether the swap mutation of the invocation went to the solver
NoCall ==
    [kind |-> "none", quote |-> Dec(0, 0), mutation |-> FALSE, ret |-> <<>>,
     err |-> "nil"]

NoOp == [op |-> "none", ok |-> FALSE, err |-> "nil", reached |-> FALSE]

NoHist ==
    [prepared |-> FALSE, signed |-> FALSE, replaced |-> FALSE, posted |-> <<>>,
     last |-> NoOp]

-----------------------------------------------------------------------------
(* The swap pipeline: the three stages *)

\* a variant of determineChain that takes every other token for ETH
determineChainDefaultEthereum(token) ==
    CASE token = "SOL" -> "solana"
      [] OTHER -> "ethereum"

determineChain(token) ==
    CASE token = "ETH" -> "ethereum"
      [] token = "SOL" -> "solana"
      [] OTHER -> "unknown"

\* fault: "pools" when GetAllPools fails
getPoolAddress(token, fault) ==
    IF fault = "pools" THEN [addr |-> "", err |-> "failed to get pools"]
    ELSE IF token \in DOMAIN PoolAddress
    THEN [addr |-> PoolAddress[token], err |-> "nil"]
    ELSE [addr |-> "", err |-> "pool not found for token"]

\* GetPool(chain), behind /get_pool_address?chain=...: the same search, with
\* the chain as the name
GetPool(chain, fault) == getPoolAddress(chain, fault)

\* a variant of PendingNonceAt that skips a nonce
PendingNonceAtNext(nd, address) == nd[address] + 1

\* ethclient.PendingNonceAt against the node nd
PendingNonceAt(nd, address) == nd[address]

\* fmt.Sprintf("%f", swap.SwapResult.ToAmount)
AmountOf == [x_ \in ToAmounts |-> FormatF(x_)]

\* the ChainParams of an account-chain intent
EthereumChainParams(sw, fromAddress, nonce) ==
    [FromAddress |-> fromAddress,
     ToAddress |-> sw.DestinationAddress,
     Amount |-> conv.AmountOf[sw.SwapResult.ToAmount],
     GasPrice |-> "gasPrice",
     GasLimit |-> StdGasLimit,
     Nonce |-> nonce,
     RecentBlockhash |-> "",
     Lamports |-> ZeroFloat]

\* a variant of SolanaChainParams that also fills the gas limit
SolanaChainParamsWithGas(sw, fromAddress) ==
    [FromAddress |-> fromAddress,
     ToAddress |-> sw.DestinationAddress,
     Amount |-> conv.AmountOf[sw.SwapResult.ToAmount],
     GasPrice |-> "",
     GasLimit |-> StdGasLimit,
     Nonce |-> 0,
     RecentBlockhash |-> "blockhash",
     Lamports |-> sw.SwapResult.ToAmount]

\* the ChainParams of a blockhash-chain intent
SolanaChainParams(sw, fromAddress) ==
    [FromAddress |-> fromAddress,
     ToAddress |-> sw.DestinationAddress,
     Amount |-> conv.AmountOf[sw.SwapResult.ToAmount],
     GasPrice |-> "",
     GasLimit |-> 0,
     Nonce |-> 0,
     RecentBlockhash |-> "blockhash",
     Lamports |-> sw.SwapResult.ToAmount]

\* &TransactionPrep{Chain: ..., RawTx: "", ChainParams: ...}
NewTransactionPrep(chain, chainParams) ==
    <<[Chain |-> chain, RawTx |-> <<>>, ChainParams |-> chainParams]>>

\* a variant of WithTxToSign that also starts the status over
WithTxToSignResettingStatus(sw, prep) ==
    [sw EXCEPT !.TxToSign = prep, !.Status = "pending"]

\* a variant of WithTxToSign that carries the RawTx of the old intent over
WithTxToSignKeepingRawTx(sw, prep) ==
    [sw EXCEPT !.TxToSign =
        IF sw.TxToSign = <<>> THEN prep
        ELSE <<[prep[1] EXCEPT !.RawTx = sw.TxToSign[1].RawTx]>>]

\* swap.TxToSign = (the new TransactionPrep): no other field is written
WithTxToSign(sw, prep) == [sw EXCEPT !.TxToSign = prep]

\* fault: "pools" (GetAllPools fails) or "node" (Dial, SuggestGasPrice or
\* PendingNonceAt fails); calls: the services the call went to
prepareEthereumTransaction(sw, fault, nd) ==
    LET p == getPoolAddress(sw.SwapResult.ToToken, fault)
    IN IF p.err # "nil"
       THEN [swap |-> sw, err |-> "failed to get source pool address",
             calls |-> <<"solver">>]
       ELSE IF fault = "node"
       THEN [swap |-> sw, err |-> "ethereum node",
             calls |-> <<"solver", "ethereum node">>]
       ELSE [swap |-> WithTxToSign(sw,
                        NewTransactionPrep("ethereum",
                          EthereumChainParams(sw, p.addr,
                            PendingNonceAt(nd, HexToAddress(p.addr))))),
             err |-> "nil",
             calls |-> <<"solver", "ethereum node">>]

\* fault: "pools" (GetAllPools fails) or "node" (GetLatestBlockhash fails)
prepareSolanaTransaction(sw, fault) ==
    LET p == getPoolAddress(sw.SwapResult.ToToken, fault)
    IN IF p.err # "nil"
       THEN [swap |-> sw, err |-> "failed to get source pool address",
             calls |-> <<"solver">>]
       ELSE IF fault = "node"
       THEN [swap |-> sw, err |-> "failed to get recent blockhash",
             calls |-> <<"solver", "solana node">>]
       ELSE [swap |-> WithTxToSign(sw,
                        NewTransactionPrep("solana",
                          SolanaChainParams(sw, p.addr))),
             err |-> "nil",
             calls |-> <<"solver", "solana node">>]

PrepareTransaction(chain, sw, fault, nd) ==
    CASE chain = "ethereum" -> prepareEthereumTransaction(sw, fault, nd)
      [] chain = "solana" -> prepareSolanaTransaction(sw, fault)
      [] OTHER -> [swap |-> sw, err |-> "unsupported chain", calls |-> <<>>]

\* a variant of Float1e18: the multiplier of the other chain
Float1e9 == ParseFloat([n |-> BigPow10(9), f |-> 0])

\* ParseFloat of the Amount string, times 1e18 as big.Float, truncated
Float1e18 == ParseFloat([n |-> BigPow10(18), f |-> 0])

AmountToWei(amount) ==
    Bind(ParseFloat(amount), LAMBDA amountFloat :
      Bind(MulFloat(amountFloat, Float1e18), LAMBDA result :
        FloatInt(result)))

WeiOfAmount == [a \in {AmountOf[x_] : x_ \in ToAmounts} |-> AmountToWei(a)]

\* the builds of the program
Builds == {"amd64", "arm64"}

\* what the conversion of a float64 beyond the range of uint64 gives: the
\* language leaves the value to the implementation and reports no error
\* (the high bit alone, 2^63, on one build; saturated, 2^64 - 1, on another)
Uint64Overflow(build) ==
    IF build = "amd64" THEN BigPow2(63)
    ELSE \* 2^64 - 1 = (2^16 - 1) * (2^48 + 2^32 + 2^16 + 1)
         BigMulSmall(BigAdd(BigAdd(BigPow2(48), BigPow2(32)),
                            BigAdd(BigPow2(16), <<1>>)), 65535)

\* uint64(x) for a float64 x >= 0: truncation when the value fits
Uint64OfFloat(x, build) ==
    Bind(FloatInt(x), LAMBDA t :
      IF BigLess(t, BigPow2(64)) THEN t ELSE Uint64Overflow(build))

\* uint64(swap.TxToSign.ChainParams.Lamports), per build
LamportsOf ==
    [x_ \in ToAmounts \cup {ZeroFloat} |->
        [b \in Builds |-> Uint64OfFloat(x_, b)]]

\* a variant of EncodeTx that stores nothing
EncodeTxEmpty(encoding, tx) == <<>>

\* hexutil.Encode / base58.Encode of the marshalled transaction
EncodeTx(encoding, tx) == <<[encoding |-> encoding, tx |-> tx]>>

\* a variant of signEthereumTransaction that encodes the transaction
\* without looking for a key
signEthereumTransactionUnsigned(sw, ck) ==
    LET cp == sw.TxToSign[1].ChainParams
        tx == [chain |-> "ethereum",
               nonce |-> cp.Nonce,
               to |-> HexToAddress(cp.ToAddress),
               value |-> conv.WeiOfAmount[cp.Amount],
               gas |-> cp.GasLimit,
               gasPrice |-> cp.GasPrice,
               chainID |-> ChainID,
               signer |-> "none"]
    IN [swap |-> [sw EXCEPT !.TxToSign[1].RawTx = EncodeTx("hex", tx)],
        err |-> "nil"]

signEthereumTransaction(sw, ck) ==
    IF ck = <<>> \/ ck[1].EthereumKey = <<>>
    THEN [swap |-> sw, err |-> "ethereum private key not initialized"]
    ELSE LET cp == sw.TxToSign[1].ChainParams
             tx == [chain |-> "ethereum",
                    nonce |-> cp.Nonce,
                    to |-> HexToAddress(cp.ToAddress),
                    value |-> conv.WeiOfAmount[cp.Amount],
                    gas |-> cp.GasLimit,
                    gasPrice |-> cp.GasPrice,
                    chainID |-> ChainID,
                    signer |-> ck[1].EthereumKey[1]]
         IN [swap |-> [sw EXCEPT !.TxToSign[1].RawTx = EncodeTx("hex", tx)],
             err |-> "nil"]

signSolanaTransaction(sw, ck, build) ==
    IF ck = <<>> \/ ck[1].SolanaKey = <<>>
    THEN [swap |-> sw, err |-> "solana private key not initialized"]
    ELSE LET cp == sw.TxToSign[1].ChainParams
         IN IF ~IsBase58Key(cp.FromAddress)
            THEN [swap |-> sw, err |-> "failed to get from address"]
            ELSE IF ~IsBase58Key(cp.ToAddress)
            THEN [swap |-> sw, err |-> "failed to get to address"]
            ELSE LET tx == [chain |-> "solana",
                            lamports |-> conv.LamportsOf[cp.Lamports][build],
                            from |-> cp.FromAddress,
                            to |-> cp.ToAddress,
                            blockhash |-> cp.RecentBlockhash,
                            signer |-> ck[1].SolanaKey[1]]
                 IN [swap |-> [sw EXCEPT !.TxToSign[1].RawTx =
                                           EncodeTx("base58", tx)],
                     err |-> "nil"]

SignTransaction(sw, ck, build) ==
    IF sw.TxToSign = <<>>
    THEN [swap |-> sw, err |-> "no transaction prepared for signing"]
    ELSE CASE sw.TxToSign[1].Chain = "ethereum" -> signEthereumTransaction(sw, ck)
           [] sw.TxToSign[1].Chain = "solana" ->
                signSolanaTransaction(sw, ck, build)
           [] OTHER -> [swap |-> sw, err |-> "unsupported chain for signing"]

\* crypto.PubkeyToAddress(chainKeys.EthereumKey.PublicKey): the account the
\* derived key signs for, which is the account-chain pool
PubkeyToAddress(key) == HexToAddress(PoolAddress["ETH"])

\* tx.Hash().Hex() on the account chain, the first signature on the
\* blockhash chain: the id of a signed transaction
TxId(tx) == [kind |-> "tx", of |-> tx]

\* hexutil.Decode and UnmarshalBinary of the raw transaction
DecodeHexTx(rawTx) ==
    IF rawTx # <<>> /\ rawTx[1].encoding = "hex"
    THEN [tx |-> <<rawTx[1].tx>>, err |-> "nil"]
    ELSE [tx |-> <<>>, err |-> "failed to decode raw transaction"]

\* the node's answer to eth_sendRawTransaction: it takes the transaction
\* whose nonce is the sender's pending nonce
NodeAccepts(nd, tx) == tx.nonce = nd[PubkeyToAddress(tx.signer)]

NodeAfter(nd, tx) == [nd EXCEPT ![PubkeyToAddress(tx.signer)] = @ + 1]

\* a variant of Submitted that leaves TxHash as it was
SubmittedKeepingTxHash(sw, tx) == [sw EXCEPT !.Status = "submitted"]

\* swap.TxHash = (the id of tx); swap.Status = "submitted"
Submitted(sw, tx) == [sw EXCEPT !.TxHash = TxId(tx), !.Status = "submitted"]

\* answer: "unreachable" (Dial fails), "rejected" (SendTransaction fails
\* whatever the nonce) or "delivered"
submitEthereumTransaction(sw, answer, nd) ==
    LET same == [swap |-> sw, node |-> nd, reached |-> FALSE, posted |-> <<>>,
                 err |-> "nil"]
        d == DecodeHexTx(sw.TxToSign[1].RawTx)
    IN IF answer = "unreachable"
       THEN [same EXCEPT !.err = "failed to connect to Ethereum node"]
       ELSE IF d.err # "nil"
       THEN [same EXCEPT !.err = d.err]
       ELSE IF answer = "rejected"
       THEN [same EXCEPT !.err = "failed to submit transaction: node message",
                         !.reached = TRUE, !.posted = d.tx]
       ELSE IF ~NodeAccepts(nd, d.tx[1])
       THEN [same EXCEPT !.err = "failed to submit transaction: nonce too low",
                         !.reached = TRUE, !.posted = d.tx]
       ELSE [swap |-> Submitted(sw, d.tx[1]),
             node |-> NodeAfter(nd, d.tx[1]),
             reached |-> TRUE,
             posted |-> d.tx,
             err |-> "nil"]

\* answer: "unreachable" (makeRPCRequest fails), "rejected" (the response
\* holds "error"), "malformed" (its "result" is no string) or "delivered"
submitSolanaTransaction(sw, answer, nd) ==
    LET raw == sw.TxToSign[1].RawTx
        sent == IF raw = <<>> THEN <<>> ELSE <<raw[1].tx>>
        same == [swap |-> sw, node |-> nd, reached |-> FALSE, posted |-> <<>>,
                 err |-> "nil"]
    IN CASE answer = "unreachable" ->
              [same EXCEPT !.err = "failed to submit transaction"]
         [] answer = "rejected" \/ raw = <<>> ->
              [same EXCEPT !.err = "RPC error: node message",
                           !.reached = TRUE, !.posted = sent]
         [] answer = "malformed" ->
              [same EXCEPT !.err = "invalid signature format in response",
                           !.reached = TRUE, !.posted = sent]
         [] OTHER ->
              [swap |-> Submitted(sw, raw[1].tx),
               node |-> nd,
               reached |-> TRUE,
               posted |-> sent,
               err |-> "nil"]

\* a variant of NoSignedTransaction that does not look at RawTx
NoTransactionPrepared(sw) == sw.TxToSign = <<>>

\* if swap.TxToSign == nil || swap.TxToSign.RawTx == ""
NoSignedTransaction(sw) ==
    sw.TxToSign = <<>> \/ sw.TxToSign[1].RawTx = <<>>

\* a variant of SubmitTransaction that takes the signature back when the
\* submission fails
SubmitTransactionRollingBack(sw, answer, nd) ==
    IF NoSignedTransaction(sw)
    THEN [swap |-> sw, node |-> nd, reached |-> FALSE, posted |-> <<>>,
          err |-> "no signed transaction available"]
    ELSE LET r == IF sw.TxToSign[1].Chain = "ethereum"
                  THEN submitEthereumTransaction(sw, answer, nd)
                  ELSE submitSolanaTransaction(sw, answer, nd)
         IN IF r.err = "nil" THEN r
            ELSE [r EXCEPT !.swap = [sw EXCEPT !.TxToSign[1].RawTx = <<>>]]

SubmitTransaction(sw, answer, nd) ==
    IF NoSignedTransaction(sw)
    THEN [swap |-> sw, node |-> nd, reached |-> FALSE, posted |-> <<>>,
          err |-> "no signed transaction available"]
    ELSE CASE sw.TxToSign[1].Chain = "ethereum" ->
                submitEthereumTransaction(sw, answer, nd)
           [] sw.TxToSign[1].Chain = "solana" ->
                submitSolanaTransaction(sw, answer, nd)
           [] OTHER -> [swap |-> sw, node |-> nd, reached |-> FALSE,
                        posted |-> <<>>,
                        err |-> "unsupported chain for submission"]

\* the conversions the stages apply, as functions of the amounts in use
Conversions ==
    [ToAmountOf |-> ToAmountOf,
     AmountOf |-> AmountOf,
     WeiOfAmount |-> WeiOfAmount,
     LamportsOf |-> LamportsOf]

-----------------------------------------------------------------------------
(* The swap pipeline: the callers *)

OpResult(op, err, reached) ==
    [op |-> op, ok |-> err = "nil", err |-> err, reached |-> reached]

\* what the history of a SwapResponse records of one call
AfterPrepare(h, r) ==
    [h EXCEPT !.prepared = @ \/ r.err = "nil",
              !.signed = @ /\ r.err # "nil",
              !.replaced = IF r.err = "nil" THEN h.signed ELSE @,
              !.last = OpResult("prepare", r.err, r.calls # <<>>)]

AfterSign(h, r) ==
    [h EXCEPT !.signed = @ \/ r.err = "nil",
              !.last = OpResult("sign", r.err, FALSE)]

AfterSubmit(h, r) ==
    [h EXCEPT !.posted = IF r.reached THEN r.posted ELSE @,
              !.last = OpResult("submit", r.err, r.reached)]

PrepareFaults == {"none", "pools", "node"}

SubmitAnswers == {"unreachable", "rejected", "malformed", "delivered"}

\* the node takes at most MaxNonce transactions of one account
WithinBound(r) == \A a \in DOMAIN r.node : r.node[a] <= MaxNonce

\* ExecuteSwap's return nil, fmt.Errorf(...): the response is dropped
ReturnError(err) == [NoCall EXCEPT !.kind = "ExecuteSwap", !.err = err]

\* InitKeys(seedPhrase): chainKeys, err = keys.DeriveKeysFromSeedPhrase(...)
InitKeys(seedPhrase) ==
    /\ LET r == DeriveKeysFromSeedPhrase(seedPhrase)
       IN /\ chainKeys' = r.keys
          /\ keysLog' = [keysLog EXCEPT !.initKeys =
                            <<[seedPhrase |-> seedPhrase,
                               err |-> IF r.err # "nil"
                                       THEN "failed to derive keys"
                                       ELSE "nil"]>>]
    /\ UNCHANGED <<lk, swap, pc, call, node, hist, conv, hp>>

\* a call of keys.DeriveKeysFromSeedPhrase by a user of the package: the
\* phrase and what came back, for the first call and for the next call with
\* the same phrase
CallDeriveKeysFromSeedPhrase(seedPhrase) ==
    /\ \/ keysLog.derived = <<>>
       \/ Len(keysLog.derived) = 1 /\ keysLog.derived[1].seedPhrase = seedPhrase
    /\ LET r == DeriveKeysFromSeedPhrase(seedPhrase)
       IN keysLog' = [keysLog EXCEPT !.derived =
                         Append(@, [seedPhrase |-> seedPhrase,
                                    keys |-> r.keys, err |-> r.err])]
    /\ UNCHANGED <<lk, chainKeys, swap, pc, call, node, hist, conv, hp>>

\* ExecuteSwap up to the construction of swapResponse: CalculateSwap, the
\* swap mutation, the struct literal.  outcome: "ok", "calculate" or
\* "mutation" for a failure of either request.
ExecuteSwapStart(s, toToken, quote, destinationAddress, outcome) ==
    /\ pc[s] = "none"
    /\ IF outcome = "ok"
       THEN /\ swap' = [swap EXCEPT ![s] =
                          NewSwapResponse(toToken, conv.ToAmountOf[quote],
                                          destinationAddress)]
            /\ pc' = [pc EXCEPT ![s] = "prepare"]
            /\ call' = [call EXCEPT ![s] =
                          [NoCall EXCEPT !.kind = "ExecuteSwap", !.quote = quote,
                                         !.mutation = TRUE]]
       ELSE /\ pc' = [pc EXCEPT ![s] = "failed"]
            /\ call' = [call EXCEPT ![s] =
                          ReturnError(IF outcome = "calculate"
                                      THEN "failed to calculate swap"
                                      ELSE "error sending request")]
            /\ UNCHANGED swap
    /\ UNCHANGED <<lk, chainKeys, node, hist, conv, keysLog, hp>>

\* chain := c.determineChain(toToken); c.PrepareTransaction(chain, swapResponse)
ExecuteSwapPrepare(s, fault) ==
    /\ pc[s] = "prepare"
    /\ LET r == PrepareTransaction(determineChain(swap[s].SwapResult.ToToken),
                                   swap[s], fault, node)
       IN /\ swap' = [swap EXCEPT ![s] = IF r.err = "nil" THEN r.swap ELSE NoSwap]
          /\ hist' = [hist EXCEPT ![s] = AfterPrepare(@, r)]
          /\ pc' = [pc EXCEPT ![s] = IF r.err = "nil" THEN "sign" ELSE "failed"]
          /\ call' = [call EXCEPT ![s] =
                        IF r.err = "nil" THEN @
                        ELSE [ReturnError("failed to prepare transaction")
                                EXCEPT !.mutation = TRUE]]
    /\ UNCHANGED <<lk, chainKeys, node, conv, keysLog, hp>>

\* c.SignTransaction(swapResponse)
ExecuteSwapSign(s, build) ==
    /\ pc[s] = "sign"
    /\ LET r == SignTransaction(swap[s], chainKeys, build)
       IN /\ swap' = [swap EXCEPT ![s] = IF r.err = "nil" THEN r.swap ELSE NoSwap]
          /\ hist' = [hist EXCEPT ![s] = AfterSign(@, r)]
          /\ pc' = [pc EXCEPT ![s] = IF r.err = "nil" THEN "submit" ELSE "failed"]
          /\ call' = [call EXCEPT ![s] =
                        IF r.err = "nil" THEN @
                        ELSE [ReturnError("failed to sign transaction")
                                EXCEPT !.mutation = TRUE]]
    /\ UNCHANGED <<lk, chainKeys, node, conv, keysLog, hp>>

\* c.SubmitTransaction(swapResponse); return swapResponse, nil
ExecuteSwapSubmit(s, answer) ==
    /\ pc[s] = "submit"
    /\ LET r == SubmitTransaction(swap[s], answer, node)
       IN /\ WithinBound(r)
          /\ swap' = [swap EXCEPT ![s] = IF r.err = "nil" THEN r.swap ELSE NoSwap]
          /\ node' = r.node
          /\ hist' = [hist EXCEPT ![s] =
                        IF r.err = "nil" THEN AfterSubmit(@, r)
                        ELSE [AfterSubmit(@, r) EXCEPT !.posted = <<>>]]
          /\ pc' = [pc EXCEPT ![s] = IF r.err = "nil" THEN "returned" ELSE "failed"]
          /\ call' = [call EXCEPT ![s] =
                        IF r.err = "nil" THEN [@ EXCEPT !.ret = <<r.swap>>]
                        ELSE [ReturnError("failed to submit transaction")
                                EXCEPT !.mutation = TRUE]]
    /\ UNCHANGED <<lk, chainKeys, conv, keysLog, hp>>

\* a caller of the package builds a SwapResponse of its own, as ExecuteSwap
\* builds it, to run the stages itself
CallerNewSwapResponse(s, toToken, quote, destinationAddress) ==
    /\ pc[s] = "none"
    /\ swap' = [swap EXCEPT ![s] =
                  NewSwapResponse(toToken, conv.ToAmountOf[quote], destinationAddress)]
    /\ pc' = [pc EXCEPT ![s] = "held"]
    /\ call' = [call EXCEPT ![s] =
                  [NoCall EXCEPT !.kind = "caller", !.quote = quote]]
    /\ UNCHANGED <<lk, chainKeys, node, hist, conv, keysLog, hp>>

\* a call of PrepareTransaction on a SwapResponse the caller holds
CallPrepareTransaction(s, chain, fault) ==
    /\ pc[s] \in {"held", "returned"}
    /\ LET r == PrepareTransaction(chain, swap[s], fault, node)
       IN /\ swap' = [swap EXCEPT ![s] = r.swap]
          /\ hist' = [hist EXCEPT ![s] = AfterPrepare(@, r)]
    /\ UNCHANGED <<lk, chainKeys, pc, call, node, conv, keysLog, hp>>

\* a call of SignTransaction on a SwapResponse the caller holds
CallSignTransaction(s, build) ==
    /\ pc[s] \in {"held", "returned"}
    /\ LET r == SignTransaction(swap[s], chainKeys, build)
       IN /\ swap' = [swap EXCEPT ![s] = r.swap]
          /\ hist' = [hist EXCEPT ![s] = AfterSign(@, r)]
    /\ UNCHANGED <<lk, chainKeys, pc, call, node, conv, keysLog, hp>>

\* a call of SubmitTransaction on a SwapResponse the caller holds
CallSubmitTransaction(s, answer) ==
    /\ pc[s] \in {"held", "returned"}
    /\ LET r == SubmitTransaction(swap[s], answer, node)
       IN /\ WithinBound(r)
          /\ swap' = [swap EXCEPT ![s] = r.swap]
          /\ node' = r.node
          /\ hist' = [hist EXCEPT ![s] = AfterSubmit(@, r)]
    /\ UNCHANGED <<lk, chainKeys, pc, call, conv, keysLog, hp>>

\* the steps of the ExecuteSwap invocation s
ExecuteSwapStep(s) ==
    \/ \E t \in Tokens, q \in Quotes, d \in Destinations,
          o \in {"ok", "calculate", "mutation"} : ExecuteSwapStart(s, t, q, d, o)
    \/ \E f \in PrepareFaults : ExecuteSwapPrepare(s, f)
    \/ \E b \in Builds : ExecuteSwapSign(s, b)
    \/ \E a \in SubmitAnswers : ExecuteSwapSubmit(s, a)

\* the calls of a caller that runs the stages itself on SwapResponse s
CallerStep(s) ==
    \/ \E t \in Tokens, q \in CallerQuotes, d \in Destinations :
          CallerNewSwapResponse(s, t, q, d)
    \/ \E c \in Chains, f \in PrepareFaults : CallPrepareTransaction(s, c, f)
    \/ \E b \in Builds : CallSignTransaction(s, b)
    \/ \E a \in SubmitAnswers : CallSubmitTransaction(s, a)

\* concurrent ExecuteSwap invocations (one per request of handlePostTxHash)
Next ==
    \/ \E p \in Phrases : InitKeys(p)
    \/ \E s \in Swaps : ExecuteSwapStep(s)

\* InitKeys and DeriveKeysFromSeedPhrase called with any phrase
NextKeys ==
    \/ \E p \in SeedPhrases : InitKeys(p)
    \/ \E p \in SeedPhrases : CallDeriveKeysFromSeedPhrase(p)

\* one SwapResponse, made by ExecuteSwap or by the caller, and any sequence
\* of stage calls on it
NextStages ==
    \/ \E p \in Phrases : InitKeys(p)
    \/ ExecuteSwapStep(1)
    \/ CallerStep(1)

-----------------------------------------------------------------------------
(* The request handler handlePostTxHash *)

\* a / 10^n, four digits at a time
BigQuoPow10(a, n) ==
    LET R[c \in 0..(n \div 4)] ==
            IF c = 0 THEN BigDivSmall(a, 10^(n % 4))[1]
            ELSE Bind(R[c - 1], LAMBDA p : BigDivSmall(p, 10000)[1])
    IN R[n \div 4]

\* big.Int.IsUint64
IsUint64(a) == BigLess(a, BigPow2(64))

\* what the nodes hold of each record: the "value" of the account chain's
\* transaction (wei, a decimal string) and the first entries of
\* meta.preBalances and meta.postBalances of the blockhash chain's (lamports).
\* rec1 is a deposit; rec2 moves more than uint64 coins on the account chain
\* and leaves the first account's balance as it was on the blockhash chain.
TransactionOf ==
    [rec1 |-> [value |-> BigMulPow10(<<2>>, 18),
               preBalance |-> 2000000000, postBalance |-> 500000000],
     rec2 |-> [value |-> BigPow10(38),
               preBalance |-> 2000000000, postBalance |-> 2000000000]]

\* the value each lookup returns, as the handler's tx: the map
\* GetEthereumTransaction builds ("value" and the rest) or the decoded
\* response GetSolanaTransaction passes on ("result": the record or null)
TxOfLookup(chain, value) ==
    IF chain = "ethereum"
    THEN [value |-> <<TransactionOf[value.result].value>>, result |-> <<>>]
    ELSE [value |-> <<>>,
          result |-> IF value.isMap /\ value.result # "null"
                     THEN <<[preBalance |-> TransactionOf[value.result].preBalance,
                             postBalance |-> TransactionOf[value.result].postBalance]>>
                     ELSE <<>>]

\* a variant of extractAmountFromTx that takes a missing result for amount 0
extractAmountOrZero(tx) ==
    IF tx.value # <<>>
    THEN LET ethValue == BigQuoPow10(tx.value[1], 18)
         IN IF ~IsUint64(ethValue)
            THEN [amount |-> <<0>>, err |-> "converted ETH value exceeds uint64 range"]
            ELSE [amount |-> ethValue, err |-> "nil"]
    ELSE IF tx.result # <<>> /\ tx.result[1].preBalance > tx.result[1].postBalance
    THEN [amount |-> BigOfInt((tx.result[1].preBalance - tx.result[1].postBalance)
                                \div 1000000000),
          err |-> "nil"]
    ELSE [amount |-> <<0>>, err |-> "nil"]

\* extractAmountFromTx: whole coins, from wei / 10^18 or from the lamports the
\* first account lost / 1e9 (truncated)
extractAmountFromTx(tx) ==
    IF tx.value # <<>>
    THEN LET ethValue == BigQuoPow10(tx.value[1], 18)
         IN IF ~IsUint64(ethValue)
            THEN [amount |-> <<0>>, err |-> "converted ETH value exceeds uint64 range"]
            ELSE [amount |-> ethValue, err |-> "nil"]
    ELSE IF tx.result # <<>> /\ tx.result[1].preBalance > tx.result[1].postBalance
    THEN [amount |-> BigOfInt((tx.result[1].preBalance - tx.result[1].postBalance)
                                \div 1000000000),
          err |-> "nil"]
    ELSE [amount |-> <<0>>, err |-> "could not extract amount from transaction"]

\* chainToToken
chainToToken == [ethereum |-> "ETH", solana |-> "SOL"]

\* a variant of getTokenForChain that names the other chain's token
getTokenForOtherChain(chain) ==
    IF chain \in DOMAIN chainToToken
    THEN [token |-> IF chain = "solana" THEN "ETH" ELSE "SOL", err |-> "nil"]
    ELSE [token |-> "", err |-> "unsupported chain"]

getTokenForChain(chain) ==
    IF chain \in DOMAIN chainToToken
    THEN [token |-> chainToToken[chain], err |-> "nil"]
    ELSE [token |-> "", err |-> "unsupported chain"]

NoRequest ==
    [method |-> "", txHash |-> "", chain |-> "", toToken |-> "",
     destinationAddress |-> ""]

\* the handler between requests.  lookup: what the lookup of the request
\* returned; swapArgs: the arguments of its ExecuteSwap call; code, error,
\* response: what was written to w; executed: the (chain, txHash) of the
\* requests so far that came to an ExecuteSwap call
IdleHandler ==
    [pc |-> "idle", req |-> NoRequest, lookup |-> <<>>, swapArgs |-> <<>>,
     code |-> 0, error |-> "", response |-> <<>>, executed |-> {}]

\* http.Error(w, error, code); return
HttpError(h, code, error) ==
    [h EXCEPT !.pc = "done", !.code = code, !.error = error]

\* json.NewEncoder(w).Encode(response): status 200
Encode(h, response) ==
    [h EXCEPT !.pc = "done", !.code = 200, !.response = <<response>>]

Methods == {"POST", "GET"}

TxHashes == {"", "tx1"}

RequestChains == {"", "solana", "ethereum", "bitcoin"}

RequestTokens == {"", "SOL", "ETH"}

RequestDestinations == {"", "SoLDest"}

\* a variant of Validate that looks at the chain before the transaction hash
ValidateChainFirst(method, txHash, chain) ==
    IF method # "POST" THEN [code |-> 405, error |-> "Method not allowed"]
    ELSE IF chain = ""
    THEN [code |-> 400, error |-> "chain parameter is required"]
    ELSE IF chain \notin {"solana", "ethereum"}
    THEN [code |-> 400, error |-> "Invalid chain parameter"]
    ELSE IF txHash = ""
    THEN [code |-> 400, error |-> "txHash parameter is required"]
    ELSE [code |-> 0, error |-> ""]

\* the checks of handlePostTxHash before the lookup, the default branch of
\* the switch included; code 0: the request goes on to the lookup
Validate(method, txHash, chain) ==
    IF method # "POST" THEN [code |-> 405, error |-> "Method not allowed"]
    ELSE IF txHash = ""
    THEN [code |-> 400, error |-> "txHash parameter is required"]
    ELSE IF chain = ""
    THEN [code |-> 400, error |-> "chain parameter is required"]
    ELSE IF chain \notin {"solana", "ethereum"}
    THEN [code |-> 400, error |-> "Invalid chain parameter"]
    ELSE [code |-> 0, error |-> ""]

\* handlePostTxHash from its entry to the call of the lookup
HandleRequest(method, txHash, chain, toToken, destinationAddress) ==
    /\ hp.pc \in {"idle", "done"}
    /\ lk.pc = "idle"
    /\ pc[1] = "none"
    /\ LET v == Validate(method, txHash, chain)
           h == [IdleHandler EXCEPT
                   !.executed = hp.executed,
                   !.req = [method |-> method, txHash |-> txHash, chain |-> chain,
                            toToken |-> toToken,
                            destinationAddress |-> destinationAddress]]
       IN hp' = IF v.code # 0 THEN HttpError(h, v.code, v.error)
                ELSE [h EXCEPT !.pc = "lookup"]
    /\ UNCHANGED <<lk, chainKeys, swap, pc, call, node, hist, conv, keysLog>>

\* the lookup of the request's chain begins
HandleLookupStart ==
    /\ hp.pc = "lookup"
    /\ lk.pc = "idle"
    /\ hp.req.chain = "solana"
    /\ GetSolanaTransactionStart

\* the steps of the lookup the handler waits for; the node's answers stay of
\* one kind until it reports a record
HandleLookupStep ==
    /\ hp.pc = "lookup"
    /\ \/ \E a \in Answers, r \in Records :
             /\ IF lk.answers = <<>> \/ a = "record" THEN TRUE
                ELSE a = lk.answers[Len(lk.answers)]
             /\ SolanaIteration(a, r)
       \/ SolanaLoopExit
       \/ GetSolanaTransactionReturn
       \/ /\ lk.pc = "idle"
          /\ hp.req.chain = "ethereum"
          /\ \E d \in BOOLEAN, a \in Answers, r \in Records :
                GetEthereumTransaction(d, a, r)

\* handlePostTxHash from the return of the lookup to the call of ExecuteSwap,
\* or to its answer when it does not come to that call
HandleLookupReturn ==
    /\ hp.pc = "lookup"
    /\ lk.pc = "returned"
    /\ LET h == [hp EXCEPT !.lookup = <<lk.ret>>]
           tx == TxOfLookup(hp.req.chain, lk.ret.value)
           token == getTokenForChain(hp.req.chain)
       IN hp' =
            IF lk.ret.err # "nil"
            THEN HttpError(h, 500, "Error getting transaction")
            ELSE IF hp.req.toToken # "" /\ hp.req.destinationAddress # ""
            THEN IF token.err # "nil"
                 THEN HttpError(h, 500, "Error getting token for chain")
                 ELSE LET amount == extractAmountFromTx(tx)
                      IN IF amount.err # "nil"
                         THEN HttpError(h, 500,
                                "Error extracting amount from transaction")
                         ELSE [h EXCEPT
                                 !.pc = "swap",
                                 !.swapArgs =
                                     <<[fromToken |-> token.token,
                                        toToken |-> hp.req.toToken,
                                        amount |-> amount.amount,
                                        destinationAddress |->
                                            hp.req.destinationAddress]>>,
                                 !.executed =
                                     @ \cup {<<hp.req.chain, hp.req.txHash>>}]
            ELSE Encode(h, [status |-> "success", chain |-> hp.req.chain,
                            data |-> lk.ret.value, swap_result |-> <<>>])
    /\ lk' = IdleLookup
    /\ UNCHANGED <<chainKeys, swap, pc, call, node, hist, conv, keysLog>>

\* the ExecuteSwap invocation the handler waits for, with the arguments the
\* handler passed
HandleSwapStep ==
    /\ hp.pc = "swap"
    /\ \/ \E q \in Quotes, o \in {"ok", "calculate", "mutation"} :
             ExecuteSwapStart(1, hp.swapArgs[1].toToken, q,
                              hp.swapArgs[1].destinationAddress, o)
       \/ \E f \in PrepareFaults : ExecuteSwapPrepare(1, f)
       \/ \E b \in Builds : ExecuteSwapSign(1, b)
       \/ \E a \in SubmitAnswers : ExecuteSwapSubmit(1, a)

\* handlePostTxHash from the return of ExecuteSwap to its end; the
\* invocation's variables go with it
HandleSwapReturn ==
    /\ hp.pc = "swap"
    /\ pc[1] \in {"returned", "failed"}
    /\ hp' = IF call[1].err # "nil"
             THEN HttpError(hp, 500, "Error executing swap")
             ELSE Encode(hp, [status |-> "success", chain |-> hp.req.chain,
                              data |-> hp.lookup[1].value,
                              swap_result |-> call[1].ret])
    /\ swap' = [swap EXCEPT ![1] = NoSwap]
    /\ pc' = [pc EXCEPT ![1] = "none"]
    /\ call' = [call EXCEPT ![1] = NoCall]
    /\ hist' = [hist EXCEPT ![1] = NoHist]
    /\ UNCHANGED <<lk, chainKeys, node, conv, keysLog>>

\* requests to /post_tx_hash, one after the other
NextHandler ==
    \/ \E m \in Methods, t \in TxHashes, c \in RequestChains,
          k \in RequestTokens, d \in RequestDestinations :
          HandleRequest(m, t, c, k, d)
    \/ HandleLookupStart
    \/ HandleLookupStep
    \/ HandleLookupReturn
    \/ HandleSwapStep
    \/ HandleSwapReturn

-----------------------------------------------------------------------------
Init ==
    /\ lk = IdleLookup
    /\ chainKeys = <<>>
    /\ swap = [s \in Swaps |-> NoSwap]
    /\ pc = [s \in Swaps |-> "none"]
    /\ call = [s \in Swaps |-> NoCall]
    /\ node = [a \in EthAddresses |-> 0]
    /\ hist = [s \in Swaps |-> NoHist]
    /\ conv = Conversions
    /\ keysLog = NoKeysLog
    /\ hp = IdleHandler

\* the server after main: InitKeys has stored the keys of the seed phrase
InitHandler ==
    /\ lk = IdleLookup
    /\ chainKeys = DeriveKeysFromSeedPhrase(<<"abandon", "ability", "ability">>).keys
    /\ swap = [s \in Swaps |-> NoSwap]
    /\ pc = [s \in Swaps |-> "none"]
    /\ call = [s \in Swaps |-> NoCall]
    /\ node = [a \in EthAddresses |-> 0]
    /\ hist = [s \in Swaps |-> NoHist]
    /\ conv = Conversions
    /\ keysLog = NoKeysLog
    /\ hp = IdleHandler

\* the transaction lookup alone
SpecLookup == Init /\ [][NextLookup]_vars

\* the steps of a GetSolanaTransaction invocation that has been started
SolanaProgress ==
    \/ \E a \in Answers, r \in Records : SolanaIteration(a, r)
    \/ SolanaLoopExit
    \/ GetSolanaTransactionReturn

\* the transaction lookup, every call to the node coming back with an answer
\* and every sleep ending
SpecLookupFair == SpecLookup /\ WF_vars(SolanaProgress)

\* the key store and concurrent ExecuteSwap invocations
Spec == Init /\ [][Next]_vars

\* the key store and the stages called in any order on one SwapResponse
SpecStages == Init /\ [][NextStages]_vars

\* the key store and the key derivation, with any phrase
SpecKeys == Init /\ [][NextKeys]_vars

\* the handler serving requests, the keys in place
SpecHandler == InitHandler /\ [][NextHandler]_vars

-----------------------------------------------------------------------------
(* Properties *)

\* a SwapResponse that exists and has not been dropped by a failed ExecuteSwap
Live(s) == pc[s] \notin {"none", "failed"}

\* the RawTx of a SwapResponse ("" when nothing is prepared)
RawTxOf(sw) == IF sw.TxToSign = <<>> THEN <<>> ELSE sw.TxToSign[1].RawTx

\* C1: when every getTransaction call of a GetSolanaTransaction lookup
\* reported the transaction as not found, the lookup returns the exhausted
\* error after exactly 10 calls, and never the not-found response as a success.
C1_NotFoundExhausts ==
    (/\ lk.pc = "returned"
     /\ lk.chain = "solana"
     /\ \A i \in 1..Len(lk.answers) : lk.answers[i] = "notfound")
    => (lk.ret.err # "nil" /\ lk.calls = 10)

\* C2: on every SwapResponse, a SignTransaction that succeeded was preceded
\* by a successful PrepareTransaction, a SubmitTransaction that reached the
\* node was preceded by a successful SignTransaction on the intent that is
\* currently prepared, and ExecuteSwap comes to Sign only after its Prepare
\* succeeded, to Submit only after its Sign succeeded, and returns a response
\* only after its Submit posted the transaction.
C2_StageOrder ==
    \A s \in Swaps :
        /\ (hist[s].last.op = "sign" /\ hist[s].last.ok) => hist[s].prepared
        /\ (hist[s].last.op = "submit" /\ hist[s].last.reached) => hist[s].signed
        /\ pc[s] = "sign" => (hist[s].last.op = "prepare" /\ hist[s].last.ok)
        /\ pc[s] = "submit" => (hist[s].last.op = "sign" /\ hist[s].last.ok)
        /\ call[s].ret # <<>> => (hist[s].prepared /\ hist[s].posted # <<>>)

\* a caller-run sequence in which Submit reached the node after Prepare and Sign
C2_Witness ==
    \E s \in Swaps :
        /\ call[s].kind = "caller"
        /\ hist[s].last.op = "submit"
        /\ hist[s].last.reached
        /\ hist[s].prepared
        /\ hist[s].signed

C4_SubmitFailureSetsFailed ==
    \A s \in Swaps :
        (/\ Live(s)
         /\ hist[s].last.op = "submit"
         /\ ~hist[s].last.ok
         /\ hist[s].signed)
        => swap[s].Status = "failed"

\* C5 as stated: RawTx is non-empty exactly when the status is "submitted"
\* or later, so it is empty while the status is "pending".
C5_RawTxIffSubmitted ==
    \A s \in Swaps :
        Live(s) =>
            (RawTxOf(swap[s]) # <<>>
                <=> swap[s].Status \in {"submitted", "confirmed"})

\* C5: RawTx is non-empty exactly when SignTransaction has succeeded on the
\* intent that is currently prepared (Prepare leaves it empty, Sign fills it
\* while the status is still "pending"), and a SubmitTransaction that
\* succeeded found it non-empty and left it in place.
C5_RawTxIffSigned ==
    \A s \in Swaps :
        Live(s) =>
            /\ RawTxOf(swap[s]) # <<>> <=> hist[s].signed
            /\ (hist[s].last.op = "submit" /\ hist[s].last.ok)
                  => RawTxOf(swap[s]) # <<>>

\* between a successful Sign and the Submit: signed, RawTx filled, "pending"
C5_Witness ==
    \E s \in Swaps :
        /\ Live(s)
        /\ hist[s].last.op = "sign"
        /\ hist[s].last.ok
        /\ RawTxOf(swap[s]) # <<>>
        /\ swap[s].Status = "pending"

\* C6: no step on a SwapResponse moves its status down in the order
\* pending < submitted < confirmed, and none leaves "failed".
C6_StatusMonotone ==
    [][\A s \in Swaps :
          (Live(s) /\ pc'[s] # "failed") =>
              LET rank == [pending |-> 0, submitted |-> 1, confirmed |-> 2]
                  old == swap[s].Status
                  new == swap'[s].Status
              IN /\ old = "failed" => new = "failed"
                 /\ old \in DOMAIN rank =>
                       (new = "failed" \/ (new \in DOMAIN rank /\ rank[new] >= rank[old]))]_vars

\* a submitted SwapResponse was prepared again and is still "submitted"
C6_Witness ==
    \E s \in Swaps :
        /\ hist[s].last.op = "prepare"
        /\ hist[s].last.ok
        /\ swap[s].Status = "submitted"

\* the intent of a SwapResponse on the given chain, if it holds one
HasIntent(s, chain) ==
    /\ Live(s)
    /\ swap[s].TxToSign # <<>>
    /\ swap[s].TxToSign[1].Chain = chain

\* C7: the lamport amount of a solana intent, and of the transfer that is
\* signed for it, is the quote's whole-coin amount times 10^9 (for the quote
\* 1.0: 1000000000).
C7_LamportsScaled ==
    \A s \in Swaps :
        HasIntent(s, "solana") =>
            LET q == call[s].quote
                cp == swap[s].TxToSign[1].ChainParams
                raw == swap[s].TxToSign[1].RawTx
            IN /\ cp.Lamports.k <= 0
               /\ BigMulPow10(FloatInt(cp.Lamports), q.f) = BigMulPow10(q.n, 9)
               /\ raw # <<>> =>
                     BigMulPow10(raw[1].tx.lamports, q.f) = BigMulPow10(q.n, 9)

\* C8: the wei value of the signed account-chain transaction is the quote's
\* whole-coin amount times 10^18 exactly, and the Amount string the intent
\* carries from Prepare to Sign writes the quote without loss.
C8_WeiExact ==
    \A s \in Swaps :
        HasIntent(s, "ethereum") =>
            LET q == call[s].quote
                cp == swap[s].TxToSign[1].ChainParams
                raw == swap[s].TxToSign[1].RawTx
            IN /\ BigMulPow10(cp.Amount.n, q.f) = BigMulPow10(q.n, cp.Amount.f)
               /\ raw # <<>> =>
                     BigMulPow10(raw[1].tx.value, q.f) = BigMulPow10(q.n, 18)

\* C9: every ethereum intent has GasLimit 21000, and the intent prepared
\* for the quote 1.0 carries the amount 1.000000, which signing turns into
\* the value 1000000000000000000 with gas 21000.
C9_EthereumIntent ==
    \A s \in Swaps :
        HasIntent(s, "ethereum") =>
            LET cp == swap[s].TxToSign[1].ChainParams
                raw == swap[s].TxToSign[1].RawTx
            IN /\ cp.GasLimit = 21000
               /\ call[s].quote = Dec(1, 0) =>
                     /\ cp.Amount = [n |-> BigPow10(6), f |-> 6]
                     /\ conv.WeiOfAmount[cp.Amount] = BigPow10(18)
                     /\ raw # <<>> =>
                           /\ raw[1].tx.value = BigPow10(18)
                           /\ raw[1].tx.gas = 21000

\* a signed ethereum intent for the quote 1.0
C9_Witness ==
    \E s \in Swaps :
        /\ HasIntent(s, "ethereum")
        /\ call[s].quote = Dec(1, 0)
        /\ swap[s].TxToSign[1].RawTx # <<>>
        /\ swap[s].TxToSign[1].RawTx[1].tx.value = <<100, 0, 0, 0, 0>>

\* C10: the Prepare of an ExecuteSwap on ethereum stores the pending nonce
\* the node reports for the pool address and reserves nothing: the node and
\* every other invocation are as before, whatever intents the others hold;
\* so two invocations that prepare before either submits hold the same nonce.
C10_PrepareReservesNothing ==
    [][\A s \in Swaps :
          (/\ pc[s] = "prepare"
           /\ pc'[s] = "sign"
           /\ swap'[s].TxToSign[1].Chain = "ethereum")
          => /\ swap'[s].TxToSign[1].ChainParams.Nonce
                    = node[HexToAddress(swap'[s].TxToSign[1].ChainParams.FromAddress)]
             /\ node' = node
             /\ \A t \in Swaps \ {s} : swap'[t] = swap[t] /\ pc'[t] = pc[t]]_vars

\* two ExecuteSwap invocations between Prepare and Submit hold ethereum
\* intents with the same source address and the same nonce
C10_Witness ==
    \E s, t \in Swaps :
        /\ s # t
        /\ pc[s] \in {"sign", "submit"}
        /\ pc[t] \in {"sign", "submit"}
        /\ HasIntent(s, "ethereum")
        /\ HasIntent(t, "ethereum")
        /\ swap[s].TxToSign[1].ChainParams.FromAddress
              = swap[t].TxToSign[1].ChainParams.FromAddress
        /\ swap[s].TxToSign[1].ChainParams.Nonce
              = swap[t].TxToSign[1].ChainParams.Nonce

\* C11: once InitKeys has stored keys, no step changes or clears the stored
\* keys, a further InitKeys call with a valid or an invalid phrase included.
C11_KeysWrittenOnce ==
    [][chainKeys # <<>> => chainKeys' = chainKeys]_vars

C13_InvalidPhraseNoKeys ==
    LET invalid(p) ==
            \/ Len(p) \notin {3}
            \/ \E i \in 1..Len(p) : p[i] \notin Wordlist
            \/ (p[3] = "ability") # (Cardinality({i \in 1..2 : p[i] = "ability"}) = 1)
    IN /\ \A i \in 1..Len(keysLog.derived) :
             invalid(keysLog.derived[i].seedPhrase)
                => /\ keysLog.derived[i].err = "invalid seed phrase"
                   /\ keysLog.derived[i].keys = <<>>
       /\ (keysLog.initKeys # <<>> /\ invalid(keysLog.initKeys[1].seedPhrase))
             => /\ keysLog.initKeys[1].err = "failed to derive keys"
                /\ chainKeys = <<>>

\* a phrase of list words with a wrong checksum word went through
\* DeriveKeysFromSeedPhrase and through InitKeys
C13_Witness ==
    /\ keysLog.derived # <<>>
    /\ keysLog.derived[1].seedPhrase = <<"ability", "ability", "ability">>
    /\ keysLog.derived[1].err # "nil"
    /\ keysLog.initKeys # <<>>
    /\ keysLog.initKeys[1].seedPhrase = <<"abandon", "ability", "abandon">>
    /\ keysLog.initKeys[1].err # "nil"

\* C14: the intent of every SwapResponse carries the parameters of its chain
\* tag and the zero values of the other chain's, whatever stages were called
\* after the Prepare that made it: an ethereum intent the gas price and the
\* nonce the node gave and the gas limit 21000, with no blockhash and no
\* lamports; a solana intent the blockhash and the quote as lamports, with no
\* gas price, gas limit or nonce.
C14_VariantMatchesTag ==
    \A s \in Swaps :
        (Live(s) /\ swap[s].TxToSign # <<>>) =>
            LET cp == swap[s].TxToSign[1].ChainParams
                chain == swap[s].TxToSign[1].Chain
            IN /\ chain \in {"ethereum", "solana"}
               /\ chain = "ethereum" =>
                     /\ cp.GasPrice # ""
                     /\ cp.GasLimit = StdGasLimit
                     /\ cp.Nonce \in 0..MaxNonce
                     /\ cp.RecentBlockhash = ""
                     /\ cp.Lamports = ZeroFloat
               /\ chain = "solana" =>
                     /\ cp.RecentBlockhash # ""
                     /\ cp.Lamports = swap[s].SwapResult.ToAmount
                     /\ cp.Lamports # ZeroFloat
                     /\ cp.GasPrice = ""
                     /\ cp.GasLimit = 0
                     /\ cp.Nonce = 0

\* a solana intent that went through Sign and a successful Submit
C14_Witness ==
    \E s \in Swaps :
        /\ HasIntent(s, "solana")
        /\ hist[s].last.op = "submit"
        /\ hist[s].last.ok
        /\ swap[s].TxToSign[1].ChainParams.RecentBlockhash # ""

\* C15: PrepareTransaction with a chain other than ethereum and solana
\* returns the unsupported-chain error, calls neither the solver service nor
\* a node and writes nothing to the SwapResponse; the Prepare of an
\* ExecuteSwap whose toToken is neither ETH nor SOL ends in that error, and
\* the invocation fails with nothing signed or posted.
C15_UnsupportedChain ==
    [][\A s \in Swaps :
          /\ Live(s) =>
                \A c \in Chains \ {"ethereum", "solana"}, f \in PrepareFaults :
                    PrepareTransaction(c, swap[s], f, node)
                       = [swap |-> swap[s], err |-> "unsupported chain",
                          calls |-> <<>>]
          /\ (/\ hist'[s] # hist[s]
              /\ hist'[s].last.op = "prepare"
              /\ hist'[s].last.err = "unsupported chain")
             => /\ ~hist'[s].last.reached
                /\ node' = node
                /\ swap'[s].TxToSign = swap[s].TxToSign
          /\ (/\ pc[s] = "prepare"
              /\ pc'[s] # "prepare"
              /\ swap[s].SwapResult.ToToken \notin {"ETH", "SOL"})
             => /\ pc'[s] = "failed"
                /\ hist'[s].last.op = "prepare"
                /\ hist'[s].last.err = "unsupported chain"
                /\ call'[s].err = "failed to prepare transaction"
                /\ call'[s].ret = <<>>
                /\ ~hist'[s].signed
                /\ hist'[s].posted = <<>>]_vars

\* an ExecuteSwap that failed in Prepare with the unsupported-chain error
C15_Witness ==
    \E s \in Swaps :
        /\ pc[s] = "failed"
        /\ hist[s].last.op = "prepare"
        /\ hist[s].last.err = "unsupported chain"
        /\ call[s].err = "failed to prepare transaction"

\* C16: SignTransaction on a prepared intent fails with the key-missing
\* error of the intent's chain when the key store is nil or lacks that
\* chain's key, and writes nothing: RawTx is as it was, so on an intent that
\* was not signed before it is empty and no SubmitTransaction reaches a
\* node; an ExecuteSwap that comes to Sign without keys fails there.
C16_SignWithoutKey ==
    [][\A s \in Swaps :
          /\ (Live(s) /\ swap[s].TxToSign # <<>>) =>
                LET chain == swap[s].TxToSign[1].Chain
                    missing == IF chain = "ethereum"
                               THEN "ethereum private key not initialized"
                               ELSE "solana private key not initialized"
                    other == <<[curve |-> "other"]>>
                    lacking == <<[EthereumKey |-> IF chain = "ethereum"
                                                  THEN <<>> ELSE other,
                                  SolanaKey |-> IF chain = "solana"
                                                THEN <<>> ELSE other]>>
                IN \A ck \in {<<>>, lacking}, b \in Builds :
                      SignTransaction(swap[s], ck, b)
                         = [swap |-> swap[s], err |-> missing]
          /\ (/\ hist'[s] # hist[s]
              /\ hist'[s].last.op = "sign"
              /\ chainKeys = <<>>
              /\ swap[s].TxToSign # <<>>)
             => /\ hist'[s].last.err \in
                      {"ethereum private key not initialized",
                       "solana private key not initialized"}
                /\ pc'[s] # "failed" => RawTxOf(swap'[s]) = RawTxOf(swap[s])
                /\ ~hist[s].signed =>
                      /\ RawTxOf(swap'[s]) = <<>>
                      /\ \A a \in SubmitAnswers :
                            ~SubmitTransaction(swap'[s], a, node').reached
                /\ pc[s] = "sign" =>
                      /\ pc'[s] = "failed"
                      /\ call'[s].err = "failed to sign transaction"
                      /\ call'[s].ret = <<>>
                      /\ hist'[s].posted = <<>>]_vars

\* SignTransaction failed for the missing key on a prepared ethereum intent,
\* whose RawTx is empty
C16_Witness ==
    \E s \in Swaps :
        /\ HasIntent(s, "ethereum")
        /\ hist[s].last.op = "sign"
        /\ hist[s].last.err = "ethereum private key not initialized"
        /\ RawTxOf(swap[s]) = <<>>
        /\ chainKeys = <<>>

\* C17: no SwapResponse holds a signed transaction, and ExecuteSwap returns
\* none, for a destination address that is malformed for the chain of its
\* intent (on ethereum anything but a hex address of 20 bytes, on solana
\* anything but a base58 key of 32 bytes).
C17_MalformedDestinationFails ==
    \A s \in Swaps :
        (Live(s) /\ swap[s].TxToSign # <<>>) =>
            LET wellFormed == [ethereum |-> {"0xPool", "0xDest"},
                               solana |-> {"SoLPool", "SoLDest"}]
                chain == swap[s].TxToSign[1].Chain
            IN swap[s].DestinationAddress \notin wellFormed[chain]
                  => /\ RawTxOf(swap[s]) = <<>>
                     /\ call[s].ret = <<>>

\* C18: a signed solana transfer carries the lamports of its intent as an
\* integer (the truncated value, which is within uint64): an intent whose
\* lamports are beyond uint64 is never signed.
C18_NoSilentOverflow ==
    \A s \in Swaps :
        (HasIntent(s, "solana") /\ RawTxOf(swap[s]) # <<>>) =>
            /\ call[s].quote # BigQuote
            /\ RawTxOf(swap[s])[1].tx.lamports
                  = FloatInt(swap[s].TxToSign[1].ChainParams.Lamports)

\* C19: in a lookup, no call follows a call that failed with an error other
\* than not-found, and the lookup that ended on such a call returned an error.
C19_ErrorEndsLookup ==
    /\ \A i \in 1..(Len(lk.answers) - 1) : lk.answers[i] # "error"
    /\ (/\ lk.pc = "returned"
        /\ lk.answers # <<>>
        /\ lk.answers[Len(lk.answers)] = "error")
       => lk.ret.err # "nil"

\* C20: on either chain, a lookup that returned after a not-found answer had
\* used all its attempts: a not-found answer short of the budget, the first
\* one included, is followed by another call.
C20_NotFoundRetried ==
    (/\ lk.pc = "returned"
     /\ lk.answers # <<>>
     /\ lk.answers[Len(lk.answers)] = "notfound")
    => lk.calls = MaxAttempts

\* C21: a GetSolanaTransaction lookup whose first k calls (0 <= k <= 9) were
\* answered not-found and whose call k+1 was answered with a record makes no
\* further call and returns, without error, the response of that call as it
\* came, after exactly k+1 calls.
C21_RecordAfterNotFound ==
    LET n == Len(lk.answers)
    IN (/\ lk.chain = "solana"
        /\ n >= 1
        /\ \A i \in 1..(n - 1) : lk.answers[i] = "notfound"
        /\ lk.answers[n] = "record")
       => /\ n <= MaxAttempts
          /\ lk.calls = n
          /\ lk.pc \in {"after", "returned"}
          /\ lk.response.isMap
          /\ lk.response.result \in Records
          /\ lk.pc = "returned" =>
                /\ lk.ret.err = "nil"
                /\ lk.ret.value = lk.response

\* nine not-found answers and a record on the tenth call, returned
C21_Witness ==
    /\ lk.pc = "returned"
    /\ lk.chain = "solana"
    /\ lk.calls = 10
    /\ \A i \in 1..9 : lk.answers[i] = "notfound"
    /\ lk.answers[10] = "record"
    /\ lk.ret.err = "nil"
    /\ lk.ret.value.result = "rec2"

\* C22: whatever the node answers, a lookup makes at most 10 calls, and a
\* lookup that has started returns (every call being answered).
C22_LookupTerminates ==
    /\ [](lk.calls <= MaxAttempts)
    /\ (lk.pc \in {"loop", "after"}) ~> (lk.pc = "returned")

\* a lookup that returned an error after ten calls, answered with errors and
\* not-found answers in turn
C22_Witness ==
    /\ lk.pc = "returned"
    /\ lk.calls = MaxAttempts
    /\ lk.ret.err # "nil"
    /\ \E i, j \in 1..Len(lk.answers) :
          lk.answers[i] = "error" /\ lk.answers[j] = "notfound"

\* C23: a SubmitTransaction that fails hands back the SwapResponse and the
\* node as they were: a caller's failing Submit leaves the intent, the signed
\* RawTx and what the history holds of Prepare and Sign untouched.  ExecuteSwap
\* moves from Prepare to Sign to Submit to its return and never back, one
\* stage call per move, and stays failed once it failed.
C23_SubmitFailureKeepsAll ==
    [][\A s \in Swaps :
          /\ \A a \in SubmitAnswers :
                LET r == SubmitTransaction(swap[s], a, node)
                IN r.err # "nil" => (r.swap = swap[s] /\ r.node = node)
          /\ (/\ pc[s] \in {"held", "returned"}
              /\ hist'[s] # hist[s]
              /\ hist'[s].last.op = "submit"
              /\ ~hist'[s].last.ok)
             => /\ swap'[s] = swap[s]
                /\ node' = node
                /\ hist'[s].prepared = hist[s].prepared
                /\ hist'[s].signed = hist[s].signed
                /\ pc'[s] = pc[s]
          /\ pc[s] = "prepare" => pc'[s] \in {"prepare", "sign", "failed"}
          /\ pc[s] = "sign" => pc'[s] \in {"sign", "submit", "failed"}
          /\ pc[s] = "submit" => pc'[s] \in {"submit", "returned", "failed"}
          /\ pc[s] = "failed" => pc'[s] = "failed"
          /\ (pc[s] \in {"prepare", "sign", "submit"} /\ hist'[s] # hist[s])
             => pc'[s] # pc[s]
      ]_vars

\* a caller's Submit was refused by the node: the signed transaction is still
\* in place
C23_Witness ==
    \E s \in Swaps :
        /\ pc[s] = "held"
        /\ hist[s].last.op = "submit"
        /\ ~hist[s].last.ok
        /\ hist[s].last.reached
        /\ hist[s].prepared
        /\ hist[s].signed
        /\ RawTxOf(swap[s]) # <<>>

\* C29: after a PrepareTransaction that succeeded, on a SwapResponse that held
\* a signed transaction or not, RawTx is empty and every SubmitTransaction
\* fails with "no signed transaction available" without going to the node,
\* until a SignTransaction succeeds; the RawTx a SwapResponse holds is always
\* the one signed for the intent it holds now.
C29_RePrepareClearsRawTx ==
    \A s \in Swaps :
        /\ (hist[s].last.op = "prepare" /\ hist[s].last.ok) =>
              /\ RawTxOf(swap[s]) = <<>>
              /\ ~hist[s].signed
        /\ (Live(s) /\ hist[s].prepared /\ ~hist[s].signed) =>
              /\ RawTxOf(swap[s]) = <<>>
              /\ \A a \in SubmitAnswers :
                    LET r == SubmitTransaction(swap[s], a, node)
                    IN /\ r.err = "no signed transaction available"
                       /\ ~r.reached
                       /\ r.swap = swap[s]
        /\ (hist[s].last.op = "submit" /\ ~hist[s].signed) =>
              /\ hist[s].last.err = "no signed transaction available"
              /\ ~hist[s].last.reached
        /\ (Live(s) /\ RawTxOf(swap[s]) # <<>>) =>
              LET cp == swap[s].TxToSign[1].ChainParams
                  tx == RawTxOf(swap[s])[1].tx
              IN /\ hist[s].signed
                 /\ tx.chain = swap[s].TxToSign[1].Chain
                 /\ tx.chain = "ethereum" => tx.nonce = cp.Nonce
                 /\ tx.chain = "solana" => tx.blockhash = cp.RecentBlockhash

\* a SwapResponse that was submitted, prepared again over its signed
\* transaction, and then refused by SubmitTransaction
C29_Witness ==
    \E s \in Swaps :
        /\ hist[s].replaced
        /\ hist[s].last.op = "submit"
        /\ hist[s].last.err = "no signed transaction available"
        /\ swap[s].Status = "submitted"
        /\ swap[s].TxToSign # <<>>
        /\ RawTxOf(swap[s]) = <<>>

\* C24: the source address of the intent a SwapResponse holds for chain c is
\* the address GetPool(c) returns, and there is such an address.
C24_SourceIsChainPool ==
    \A s \in Swaps : \A c \in {"ethereum", "solana"} :
        HasIntent(s, c) =>
            LET g == GetPool(c, "none")
            IN /\ g.err = "nil"
               /\ swap[s].TxToSign[1].ChainParams.FromAddress = g.addr

\* C30: an ExecuteSwap that failed because the chain of toToken is not
\* supported has not sent the swap mutation to the solver.
C30_ChainCheckedFirst ==
    \A s \in Swaps :
        (/\ call[s].kind = "ExecuteSwap"
         /\ pc[s] = "failed"
         /\ hist[s].last.op = "prepare"
         /\ hist[s].last.err = "unsupported chain")
        => ~call[s].mutation

\* the request in hand was turned down by one of the checks before the lookup
Rejected(req) ==
    \/ req.method # "POST"
    \/ req.txHash = ""
    \/ req.chain \notin {"solana", "ethereum"}

\* the lookup of the request in hand has returned without error
LookupSucceeded == hp.lookup # <<>> /\ hp.lookup[1].err = "nil"

\* the request in hand carries both swap parameters
SwapRequested == hp.req.toToken # "" /\ hp.req.destinationAddress # ""

\* the handler is past the return of the lookup
PastLookup == hp.pc \in {"swap", "done"} /\ hp.lookup # <<>>

C26_ValidationOrder ==
    hp.pc # "idle" =>
        LET req == hp.req
        IN /\ Rejected(req) =>
                 /\ hp.pc = "done"
                 /\ hp.lookup = <<>>
                 /\ hp.swapArgs = <<>>
                 /\ lk = IdleLookup
                 /\ pc[1] = "none"
                 /\ hp.response = <<>>
           /\ req.method # "POST" =>
                 (hp.code = 405 /\ hp.error = "Method not allowed")
           /\ (req.method = "POST" /\ req.txHash = "") =>
                 (hp.code = 400 /\ hp.error = "txHash parameter is required")
           /\ (req.method = "POST" /\ req.txHash # "" /\ req.chain = "") =>
                 (hp.code = 400 /\ hp.error = "chain parameter is required")
           /\ (/\ req.method = "POST" /\ req.txHash # ""
               /\ req.chain \notin {"", "solana", "ethereum"}) =>
                 (hp.code = 400 /\ hp.error = "Invalid chain parameter")
           /\ hp.code \in {400, 405} => Rejected(req)

\* a POST request without txHash and without chain, answered for the txHash
C26_Witness ==
    /\ hp.pc = "done"
    /\ hp.req.method = "POST"
    /\ hp.req.txHash = ""
    /\ hp.req.chain = ""
    /\ hp.req.toToken # ""
    /\ hp.code = 400
    /\ hp.error = "txHash parameter is required"

C28_OneSwapPerDeposit ==
    [][(hp.pc = "lookup" /\ hp'.pc = "swap")
          => <<hp.req.chain, hp.req.txHash>> \notin hp.executed]_vars
====
